---- MODULE Spec2Model ----
(***************************************************************************)
(* Model of src/oracle/cysic-hardware-miner.py (class CysicHardwareMiner). *)
(*                                                                         *)
(* Spec       : the running program, start_mining(): the registry load     *)
(*              followed by the four gathered tasks.  The program runs on  *)
(*              one asyncio event loop, so a step of the model is the code *)
(*              between two suspension points (await of I/O, sleep or      *)
(*              gather).  requests.post is a blocking call: a prover call  *)
(*              is one step.                                               *)
(* SpecSubmit : submit_to_nuchain() applied to chosen arguments and chosen *)
(*              answers of the submission target.  Nothing in              *)
(*              start_mining() calls this method.                          *)
(***************************************************************************)
EXTENDS Integers, Sequences, FiniteSets, TLC

\* ------------------------------------------------------------------ bounds
MaxHeight == 2        \* block heights delivered by the event stream: 1..MaxHeight
MaxInputs == 3        \* what one run takes from outside: block events, connection
                      \* failures, clock seconds, wake-ups of the timer and stats loops
ClockStart == 100     \* int(time.time()) when the tasks start
MaxSubmits == 2       \* calls of submit_to_nuchain in one run of SpecSubmit
MaxScript == 6        \* longest run of failures the submission target is scripted to return

\* ------------------------------------------------------- program constants
ReconnectDelay == 5   \* asyncio.sleep(5) before the monitor reconnects

Min(a, b) == IF a <= b THEN a ELSE b

Chains == <<"altcoinchain", "polygon">>

ChainSet == {Chains[i] : i \in 1..Len(Chains)}

\* the rigs every configured oracle returns (mock data of load_rigs_from_chain)
mock_rigs ==
    << [rig_id |-> 1, owner |-> "0x742d", components |-> <<1, 3, 4>>,
        hash_power |-> 2000000, watt_consumption |-> 445,
        nuchain_address |-> "nu1miner0", is_active |-> TRUE],
       [rig_id |-> 2, owner |-> "0x123d", components |-> <<1, 3, 5, 5>>,
        hash_power |-> 4500000, watt_consumption |-> 1025,
        nuchain_address |-> "nu1miner1", is_active |-> TRUE] >>

\* a key made of the chain alone
rig_key_of_chain(chain, rig) == <<chain, "", 0>>

\* rig_key = f"{chain}:{rig.owner}:{rig.rig_id}"
rig_key(chain, rig) == <<chain, rig.owner, rig.rig_id>>

ChainKeys(chain) == {rig_key(chain, mock_rigs[i]) : i \in 1..Len(mock_rigs)}

AllKeys == UNION {ChainKeys(c) : c \in ChainSet}

\* iteration order of the dict mining_rigs: insertion order, that is the
\* order of the two loads and of mock_rigs within a load
KeyOrder ==
    << rig_key(Chains[1], mock_rigs[1]), rig_key(Chains[1], mock_rigs[2]),
       rig_key(Chains[2], mock_rigs[1]), rig_key(Chains[2], mock_rigs[2]) >>

\* the states of one oracle source: an address is configured, no address is
\* configured, or the lookup of the address raises
SourceStates == {"ok", "unconfigured", "raises"}

BlockHeights == 1..MaxHeight

ClockValues == ClockStart..(ClockStart + MaxInputs)

Heights == BlockHeights \cup ClockValues

Procs == {"monitor", "timer"}

NotRead == [read |-> FALSE, rigs |-> {}]

NoFan == [active |-> FALSE, h |-> 0, todo |-> <<>>, results |-> <<>>]

VARIABLES
    oracle_contracts,  \* config: chain -> SourceStates
    phase,             \* position of start_mining
    mining_rigs,       \* self.mining_rigs: rig key -> MiningRig
    loaded,            \* chain -> the list a load_rigs_from_chain call returned
    mon_pc,            \* position of monitor_nuchain_blocks
    fails,             \* consecutive failures of the monitor since its last successful connect
    waited,            \* the delay of the monitor's last sleep before a reconnect (0: none yet)
    conn_fresh,        \* no block event was read on the current connection yet
    last_seen,         \* highest height the event stream delivered
    last_trigger,      \* triggers the monitor emitted: their number and the last height
    tim_pc,            \* position of generate_cysic_proofs
    now,               \* int(time.time())
    fan,               \* per caller: the fan-out of trigger_proof_generation in progress
    ready,             \* the callers whose gathered tasks wait in the event loop's queue, oldest first
    obs,               \* per reader: the rig set it read last
    calls,             \* <<rig key, height>> -> number of prover calls issued
    proofs_generated,  \* self.proofs_generated
    inputs,            \* number of inputs taken from outside so far
    relayer_address,   \* config: whether 'relayer_address' is set
    total_rewards,     \* self.total_rewards
    handed,            \* <<rig key, height>> pairs passed to submit_to_nuchain
    submits,           \* number of calls of submit_to_nuchain
    confirmed,         \* <<rig key, height>> -> number of accepted submissions
    last_sub,          \* the outcome of the last call of submit_to_nuchain
    dispatched,        \* calls of trigger_proof_generation: their number, the last height, the number per height
    in_flight,         \* <<caller, rig key>> of the prover requests sent and not answered yet
    public_inputs,     \* the last call of prepare_public_inputs: what it read and its digest
    stats,             \* monitor_mining_stats: its iterations so far and the dict of the last one
    answers            \* the answers of the prover so far: status 200, and any other end of the request

vars == << oracle_contracts, phase, mining_rigs, loaded, mon_pc, fails,
           waited, conn_fresh, last_seen, last_trigger, tim_pc,
           now, fan, ready, obs, calls, proofs_generated, inputs,
           relayer_address, total_rewards,
           handed, submits, confirmed, last_sub, dispatched,
           in_flight, public_inputs, stats, answers >>

monitor_vars == << mon_pc, fails, waited, conn_fresh, last_seen, last_trigger >>

registry_vars == << oracle_contracts, phase, mining_rigs, loaded >>

submit_vars == << relayer_address, total_rewards, handed, submits, confirmed, last_sub >>

NoDispatch == [n |-> 0, last |-> 0, count |-> [h \in Heights |-> 0]]

NoInputs == [set |-> FALSE, read |-> << >>, digest |-> << >>]

NoStats == [rounds |-> 0, proofs_generated |-> 0, total_hash_power |-> 0,
            active_rigs |-> 0, total_rewards |-> 0]

NoSub == [pair |-> <<>>, attempts |-> 0, script |-> 0, outcome |-> "none",
          proof |-> "none", built |-> FALSE, tx |-> <<>>]

\* __init__ and the entry of start_mining
Init ==
    /\ oracle_contracts \in [ChainSet -> SourceStates]
    /\ phase = "load_1"
    /\ mining_rigs = << >>
    /\ loaded = [c \in ChainSet |-> << >>]
    /\ mon_pc = "connect"
    /\ fails = 0
    /\ waited = 0
    /\ conn_fresh = TRUE
    /\ last_seen = 0
    /\ last_trigger = [n |-> 0, h |-> 0]
    /\ tim_pc = "loop"
    /\ now = ClockStart
    /\ fan = [p \in Procs |-> NoFan]
    /\ ready = << >>
    /\ obs = [p \in Procs \cup {"stats"} |-> NotRead]
    /\ calls = [pr \in AllKeys \X Heights |-> 0]
    /\ proofs_generated = 0
    /\ inputs = 0
    /\ relayer_address = TRUE
    /\ total_rewards = 0
    /\ handed = {}
    /\ submits = 0
    /\ confirmed = [pr \in AllKeys \X BlockHeights |-> 0]
    /\ last_sub = NoSub
    /\ dispatched = NoDispatch
    /\ in_flight = {}
    /\ public_inputs = NoInputs
    /\ stats = NoStats
    /\ answers = [ok |-> 0, failed |-> 0]


\* ------------------------------------------------------------ rig registry

RECURSIVE install_rigs(_, _, _)
\* the loop "for rig in mock_rigs: self.mining_rigs[rig_key] = rig" from index i
install_rigs(reg, chain, i) ==
    IF i > Len(mock_rigs) THEN reg
    ELSE LET k == rig_key(chain, mock_rigs[i])
             put == [x \in (DOMAIN reg) \cup {k} |->
                        IF x = k THEN mock_rigs[i] ELSE reg[x]]
         IN  install_rigs(put, chain, i + 1)

\* load_rigs_from_chain without its own "except Exception": a lookup that
\* raises leaves the method
load_rigs_from_chain_uncaught(reg, chain) ==
    CASE oracle_contracts[chain] = "raises" ->
            [reg |-> reg, rigs |-> << >>, escaped |-> TRUE]
      [] oracle_contracts[chain] = "unconfigured" ->
            [reg |-> reg, rigs |-> << >>, escaped |-> FALSE]
      [] OTHER ->
            [reg |-> install_rigs(reg, chain, 1), rigs |-> mock_rigs,
             escaped |-> FALSE]

\* load_rigs_from_chain(chain) on the registry reg: the registry afterwards, the
\* returned list, and whether an exception leaves the method
load_rigs_from_chain(reg, chain) ==
    CASE oracle_contracts[chain] = "raises" ->
            \* caught by "except Exception" inside the method
            [reg |-> reg, rigs |-> << >>, escaped |-> FALSE]
      [] oracle_contracts[chain] = "unconfigured" ->
            [reg |-> reg, rigs |-> << >>, escaped |-> FALSE]
      [] OTHER ->
            [reg |-> install_rigs(reg, chain, 1), rigs |-> mock_rigs,
             escaped |-> FALSE]

\* the four tasks created while load_mining_rigs is between its two sources
TasksStartedDuringLoad == phase \in {"load_2", "running"}

\* start_mining awaits load_mining_rigs before it creates the four tasks
TasksStarted == phase = "running"

\* load_mining_rigs, first source (line 131)
LoadFirst ==
    /\ phase = "load_1"
    /\ LET r == load_rigs_from_chain(mining_rigs, Chains[1])
       IN  /\ mining_rigs' = r.reg
           /\ loaded' = [loaded EXCEPT ![Chains[1]] = r.rigs]
           /\ phase' = IF r.escaped THEN "running" ELSE "load_2"
    /\ UNCHANGED << oracle_contracts, monitor_vars, tim_pc, now, fan, ready, obs,
                    calls, proofs_generated, inputs, submit_vars, dispatched,
                    in_flight, public_inputs, stats, answers >>

\* load_mining_rigs, second source (line 134), and the return to start_mining
LoadSecond ==
    /\ phase = "load_2"
    /\ LET r == load_rigs_from_chain(mining_rigs, Chains[2])
       IN  /\ mining_rigs' = r.reg
           /\ loaded' = [loaded EXCEPT ![Chains[2]] = r.rigs]
    /\ phase' = "running"
    /\ UNCHANGED << oracle_contracts, monitor_vars, tim_pc, now, fan, ready, obs,
                    calls, proofs_generated, inputs, submit_vars, dispatched,
                    in_flight, public_inputs, stats, answers >>

\* ------------------------------------------------------------- dispatcher

\* the list of all rigs, without the test of is_active
active_rigs_unfiltered(reg) ==
    SelectSeq(KeyOrder, LAMBDA k : k \in DOMAIN reg)

\* [rig for rig in self.mining_rigs.values() if rig.is_active], as rig keys
active_rigs(reg) ==
    SelectSeq(KeyOrder, LAMBDA k : k \in DOMAIN reg /\ reg[k].is_active)

\* The event loop runs the tasks a gather created one after the other, in the
\* order of their creation, and none of them suspends (requests.post blocks):
\* a coroutine that is woken while a batch of tasks runs resumes after it.
Running ==
    \/ ready # << >> /\ fan[Head(ready)].results # << >>
    \/ in_flight # {}

\* trigger_proof_generation(block_height) called by p, up to the await of gather
trigger_proof_generation(p, h) ==
    /\ dispatched' = [n |-> dispatched.n + 1, last |-> h,
                      count |-> [dispatched.count EXCEPT ![h] = @ + 1]]
    /\ obs' = [obs EXCEPT ![p] = [read |-> TRUE, rigs |-> DOMAIN mining_rigs]]
    /\ ready' = IF active_rigs(mining_rigs) = << >> THEN ready
                ELSE Append(ready, p)
    /\ fan' = [fan EXCEPT ![p] =
                 IF active_rigs(mining_rigs) = << >> THEN NoFan
                 ELSE [active |-> TRUE, h |-> h,
                       todo |-> active_rigs(mining_rigs), results |-> << >>]]

ProverOutcomes == {"ok", "status", "exception"}

\* what generate_cysic_proof_for_rig returns
proof_result(outcome) == IF outcome = "ok" THEN "proof" ELSE "None"

\* a counter of the requests answered, whatever the answer
count_answer(counter, outcome) == counter + 1

\* self.proofs_generated after a request has ended: "+= 1" in the branch of
\* status 200 only
count_proof(counter, outcome) ==
    IF outcome = "ok" THEN counter + 1 ELSE counter

\* a gather in which a failed task cancels the tasks that have not run yet
gather_rest_cancelling(todo, outcome) ==
    IF outcome = "ok" THEN Tail(todo) ELSE << >>

\* gather(*tasks, return_exceptions=True): the tasks still to run after one
\* task has finished with the given outcome
gather_rest(todo, outcome) == Tail(todo)

\* self.hardware_id = config.get('hardware_id', 'nvidia-a100')
hardware_id == "nvidia-a100"

\* hashlib.sha256(serialized).digest(): equal inputs give equal digests and
\* different inputs different ones
sha256(serialized) == <<"sha256", serialized>>

\* what prepare_public_inputs(rig, block_height) reads when int(time.time())
\* is t: fields of the rig, the height, the clock and self.hardware_id
inputs_read(rig, block_height, t) ==
    <<rig.rig_id, rig.owner, rig.components, rig.hash_power,
      rig.watt_consumption, block_height, t, hardware_id>>

\* a digest that also covers the counter self.proofs_generated
prepare_public_inputs_counting(rig, block_height, t) ==
    sha256(<<"json",
             << <<"block_height", block_height>>,
                <<"components", rig.components>>,
                <<"hardware_id", hardware_id>>,
                <<"hash_power", rig.hash_power>>,
                <<"owner", rig.owner>>,
                <<"proofs_generated", proofs_generated>>,
                <<"rig_id", rig.rig_id>>,
                <<"timestamp", t>>,
                <<"watt_consumption", rig.watt_consumption>> >> >>)

\* prepare_public_inputs(rig, block_height) when int(time.time()) is t:
\* json.dumps(data, sort_keys=True) lists the items by key, sha256 hashes them
prepare_public_inputs(rig, block_height, t) ==
    sha256(<<"json",
             << <<"block_height", block_height>>,
                <<"components", rig.components>>,
                <<"hardware_id", hardware_id>>,
                <<"hash_power", rig.hash_power>>,
                <<"owner", rig.owner>>,
                <<"rig_id", rig.rig_id>>,
                <<"timestamp", t>>,
                <<"watt_consumption", rig.watt_consumption>> >> >>)

\* an HTTP client that suspends the task while the request is outstanding:
\* the next task of the gather sends its request meanwhile
can_post_while_waiting(outstanding) == TRUE

\* requests.post blocks the thread of the event loop until the response or the
\* timeout: a task reaches its requests.post only when no request is outstanding
can_post(outstanding) == outstanding = {}

\* the positions in todo of the tasks that have not sent their request
unsent(p) == {i \in 1..Len(fan[p].todo) : <<p, fan[p].todo[i]>> \notin in_flight}

\* one task of the gather, generate_cysic_proof_for_rig(rig, block_height), up
\* to the sending of its request by requests.post
ProverRequest(p) ==
    /\ ready # << >>
    /\ Head(ready) = p
    /\ can_post(in_flight)
    /\ unsent(p) # {}
    /\ LET i == CHOOSE x \in unsent(p) : \A y \in unsent(p) : x <= y
           rig == mining_rigs[fan[p].todo[i]]
       IN  /\ in_flight' = in_flight \cup {<<p, fan[p].todo[i]>>}
           /\ public_inputs' =
                 [set |-> TRUE, read |-> inputs_read(rig, fan[p].h, now),
                  digest |-> prepare_public_inputs(rig, fan[p].h, now)]
    /\ UNCHANGED << registry_vars, monitor_vars, tim_pc, now, fan, ready, obs,
                    calls, proofs_generated, inputs, submit_vars, dispatched,
                    stats, answers >>

\* the rest of the task: requests.post returns or raises, the counter is
\* updated and the task ends
ProverCall(p) ==
    /\ ready # << >>
    /\ Head(ready) = p
    /\ <<p, Head(fan[p].todo)>> \in in_flight
    /\ in_flight' = in_flight \ {<<p, Head(fan[p].todo)>>}
    /\ \E outcome \in ProverOutcomes :
         LET rig == Head(fan[p].todo)
             pr  == <<rig, fan[p].h>>
         IN  /\ calls' = [calls EXCEPT ![pr] = @ + 1]
             /\ proofs_generated' = count_proof(proofs_generated, outcome)
             /\ answers' = IF outcome = "ok"
                           THEN [answers EXCEPT !.ok = @ + 1]
                           ELSE [answers EXCEPT !.failed = @ + 1]
             /\ fan' = [fan EXCEPT
                   ![p].todo = gather_rest(fan[p].todo, outcome),
                   ![p].results = Append(@, <<rig, proof_result(outcome)>>)]
             /\ ready' = IF fan'[p].todo = << >> THEN Tail(ready) ELSE ready
    /\ UNCHANGED << registry_vars, monitor_vars, tim_pc, now, obs,
                    inputs, submit_vars, dispatched, public_inputs, stats >>

\* gather returns, its list of results is dropped, trigger_proof_generation
\* returns to its caller
FanoutDone(p) ==
    /\ ~Running
    /\ fan[p].active
    /\ fan[p].todo = << >>
    /\ fan' = [fan EXCEPT ![p] = NoFan]
    /\ IF p = "monitor"
       THEN mon_pc' = "subscribed" /\ tim_pc' = tim_pc
       ELSE tim_pc' = "loop" /\ mon_pc' = mon_pc
    /\ UNCHANGED << registry_vars, fails, waited, conn_fresh, last_seen,
                    last_trigger, now, ready, obs, calls,
                    proofs_generated, inputs, submit_vars, dispatched,
                    in_flight, public_inputs, stats, answers >>


\* ---------------------------------------------------------- event monitor

\* a delay that shrinks on repeated failures
reconnect_delay_shrinking(n) ==
    IF n = 0 THEN ReconnectDelay ELSE ReconnectDelay - 1

\* the delay slept before the reconnect that follows the n-th consecutive
\* failure (n counted from 0): "await asyncio.sleep(5)"
reconnect_delay(n) == ReconnectDelay

\* the heights the event stream may deliver next: increasing on one
\* connection, and a new connection may replay the last height
NextHeights ==
    {h \in BlockHeights : IF conn_fresh THEN h >= last_seen ELSE h > last_seen}

\* websockets.connect succeeds and the subscription request is sent
MonConnect ==
    /\ TasksStarted
    /\ ~Running
    /\ mon_pc = "connect"
    /\ mon_pc' = "subscribed"
    /\ conn_fresh' = TRUE
    /\ fails' = 0
    /\ UNCHANGED << registry_vars, waited, last_seen,
                    last_trigger, tim_pc, now, fan, ready, obs, calls,
                    proofs_generated, inputs, submit_vars, dispatched,
                    in_flight, public_inputs, stats, answers >>

\* websockets.connect or the send raises: "except Exception"
MonConnectFails ==
    /\ TasksStarted
    /\ ~Running
    /\ mon_pc = "connect"
    /\ inputs < MaxInputs
    /\ inputs' = inputs + 1
    /\ mon_pc' = "backoff"
    /\ UNCHANGED << registry_vars, fails, waited, conn_fresh, last_seen,
                    last_trigger, tim_pc, now, fan, ready, obs, calls,
                    proofs_generated, submit_vars, dispatched, in_flight,
                    public_inputs, stats, answers >>

\* a monitor that starts the fan-out as a task of its own
\* (asyncio.create_task) and goes on reading
after_trigger_detached(fanout_active) == "subscribed"

\* "await self.trigger_proof_generation(block_height)" inside the receive
\* loop: the monitor stays in the call until the gather has returned
after_trigger(fanout_active) ==
    IF fanout_active THEN "fanout" ELSE "subscribed"

\* one NewBlock message: the height is parsed and
\* trigger_proof_generation(block_height) is awaited
MonBlockEvent ==
    /\ ~Running
    /\ mon_pc = "subscribed"
    /\ inputs < MaxInputs
    /\ \E h \in NextHeights :
         /\ last_seen' = h
         /\ last_trigger' = [n |-> last_trigger.n + 1, h |-> h]
         /\ trigger_proof_generation("monitor", h)
    /\ inputs' = inputs + 1
    /\ conn_fresh' = FALSE
    /\ mon_pc' = after_trigger(fan'["monitor"].active)
    /\ UNCHANGED << registry_vars, fails, waited, tim_pc, now,
                    calls, proofs_generated, submit_vars, in_flight,
                    public_inputs, stats, answers >>

\* the receive loop raises (connection lost, message that does not parse)
MonStreamError ==
    /\ ~Running
    /\ mon_pc = "subscribed"
    /\ inputs < MaxInputs
    /\ inputs' = inputs + 1
    /\ mon_pc' = "backoff"
    /\ UNCHANGED << registry_vars, fails, waited, conn_fresh, last_seen,
                    last_trigger, tim_pc, now, fan, ready, obs, calls,
                    proofs_generated, submit_vars, dispatched, in_flight,
                    public_inputs, stats, answers >>

\* the stream is closed normally: "async for" ends without an exception and
\* monitor_nuchain_blocks returns, as do all its callers on the stack
MonStreamClosed ==
    /\ ~Running
    /\ mon_pc = "subscribed"
    /\ mon_pc' = "returned"
    /\ UNCHANGED << registry_vars, fails, waited, conn_fresh, last_seen,
                    last_trigger, tim_pc, now, fan, ready, obs, calls,
                    proofs_generated, inputs, submit_vars, dispatched,
                    in_flight, public_inputs, stats, answers >>

\* the except branch: sleep, then the recursive call
MonBackoff ==
    /\ ~Running
    /\ mon_pc = "backoff"
    /\ waited' = reconnect_delay(fails)
    /\ fails' = fails + 1
    /\ mon_pc' = "connect"
    /\ UNCHANGED << registry_vars, conn_fresh, last_seen, last_trigger,
                    tim_pc, now, fan, ready, obs, calls, proofs_generated,
                    inputs, submit_vars, dispatched, in_flight,
                    public_inputs, stats, answers >>

\* ------------------------------------------------------ time-driven loop

\* one iteration of generate_cysic_proofs up to its next suspension
TimerRound ==
    /\ TasksStarted
    /\ ~Running
    /\ tim_pc = "loop"
    /\ inputs < MaxInputs
    /\ inputs' = inputs + 1
    /\ IF DOMAIN mining_rigs # {}
       THEN /\ trigger_proof_generation("timer", now)
            /\ tim_pc' = IF fan'["timer"].active THEN "fanout" ELSE "loop"
       ELSE UNCHANGED << fan, ready, obs, tim_pc, dispatched >>
    /\ UNCHANGED << registry_vars, monitor_vars, now, calls, proofs_generated, submit_vars,
                    in_flight, public_inputs, stats, answers >>

\* the wall clock advances by one second
Tick ==
    /\ TasksStarted
    /\ inputs < MaxInputs
    /\ inputs' = inputs + 1
    /\ now' = now + 1
    /\ UNCHANGED << registry_vars, monitor_vars, tim_pc, fan, ready, obs, calls,
                    proofs_generated, submit_vars, dispatched, in_flight,
                    public_inputs, stats, answers >>

\* ------------------------------------------------------------- stats loop

RECURSIVE sum_hash_power(_, _)
\* sum(rig.hash_power for rig in self.mining_rigs.values()) from position i
sum_hash_power(reg, i) ==
    IF i > Len(KeyOrder) THEN 0
    ELSE (IF KeyOrder[i] \in DOMAIN reg THEN reg[KeyOrder[i]].hash_power ELSE 0)
         + sum_hash_power(reg, i + 1)

\* a stats loop that reports the proofs of the interval and starts the count
\* of the next interval at zero
counters_reset_by_stats(counters) == <<0, counters[2]>>

\* self.proofs_generated and self.total_rewards after an iteration of
\* monitor_mining_stats: the loop reads them into the dict and assigns neither
counters_after_stats(counters) == counters

\* one iteration of monitor_mining_stats: reads the registry and the counters
\* into the dict stats, prints and sleeps
StatsRound ==
    /\ TasksStarted
    /\ ~Running
    /\ inputs < MaxInputs
    /\ inputs' = inputs + 1
    /\ obs' = [obs EXCEPT !["stats"] =
                               [read |-> TRUE, rigs |-> DOMAIN mining_rigs]]
    /\ stats' = [rounds |-> stats.rounds + 1,
                 proofs_generated |-> proofs_generated,
                 total_hash_power |-> sum_hash_power(mining_rigs, 1),
                 active_rigs |-> Len(active_rigs(mining_rigs)),
                 total_rewards |-> total_rewards]
    /\ proofs_generated' =
          counters_after_stats(<<proofs_generated, total_rewards>>)[1]
    /\ total_rewards' =
          counters_after_stats(<<proofs_generated, total_rewards>>)[2]
    /\ UNCHANGED << registry_vars, monitor_vars, tim_pc, now, fan, ready, calls,
                    relayer_address, handed, submits, confirmed, last_sub,
                    dispatched, in_flight, public_inputs, answers >>

Next ==
    \/ LoadFirst
    \/ LoadSecond
    \/ MonConnect
    \/ MonConnectFails
    \/ MonBlockEvent
    \/ MonStreamError
    \/ MonStreamClosed
    \/ MonBackoff
    \/ TimerRound
    \/ Tick
    \/ StatsRound
    \/ \E p \in Procs : ProverRequest(p)
    \/ \E p \in Procs : ProverCall(p)
    \/ \E p \in Procs : FanoutDone(p)

Spec == Init /\ [][Next]_vars


\* -------------------------------------------------- submission to nuChain

\* the attempt cap of the submission pipeline; the code defines none, the
\* value is the one of the specification's scenarios
AttemptCap == 5

\* how the submission target can fail one request: HTTP status other than
\* 200, a result code other than 0, or an exception of requests.post
SubmitFailures == {"http", "code", "exception"}

\* the registry after load_mining_rigs with the current configuration
LoadedRegistry ==
    load_rigs_from_chain(load_rigs_from_chain(<< >>, Chains[1]).reg, Chains[2]).reg

\* submit_to_nuchain is applied to rigs of a loaded registry
InitSubmit ==
    /\ oracle_contracts = [c \in ChainSet |->
                              IF c = Chains[1] THEN "ok" ELSE "unconfigured"]
    /\ phase = "running"
    /\ mining_rigs = LoadedRegistry
    /\ loaded = [c \in ChainSet |-> load_rigs_from_chain(<< >>, c).rigs]
    /\ mon_pc = "connect"
    /\ fails = 0
    /\ waited = 0
    /\ conn_fresh = TRUE
    /\ last_seen = 0
    /\ last_trigger = [n |-> 0, h |-> 0]
    /\ tim_pc = "loop"
    /\ now = ClockStart
    /\ fan = [p \in Procs |-> NoFan]
    /\ ready = << >>
    /\ obs = [p \in Procs \cup {"stats"} |-> NotRead]
    /\ calls = [pr \in AllKeys \X Heights |-> 0]
    /\ proofs_generated = 0
    /\ inputs = 0
    /\ relayer_address \in BOOLEAN
    /\ total_rewards = 0
    /\ handed = {}
    /\ submits = 0
    /\ confirmed = [pr \in AllKeys \X BlockHeights |-> 0]
    /\ last_sub = NoSub
    /\ dispatched = NoDispatch
    /\ in_flight = {}
    /\ public_inputs = NoInputs
    /\ stats = NoStats
    /\ answers = [ok |-> 0, failed |-> 0]

\* the CysicProof objects submit_to_nuchain is applied to
CysicProofs ==
    {[proof_bytes |-> b, public_inputs |-> "digest", hardware_id |-> hardware_id] :
        b \in {"aa", "bb"}}

\* json.dumps of a dict: its items in insertion order
json_dumps(items) == <<"json", items>>

\* encode_mining_payload(rig, proof, block_height) when int(time.time()) is t
encode_mining_payload(rig, proof, block_height, t) ==
    json_dumps(<< <<"miner_address", rig.owner>>,
                  <<"nuchain_address", rig.nuchain_address>>,
                  <<"rig_ids", <<rig.rig_id>> >>,
                  <<"total_hash_power", rig.hash_power>>,
                  <<"total_watt_cost", rig.watt_consumption>>,
                  <<"cysic_proof", proof.proof_bytes>>,
                  <<"public_inputs", proof.public_inputs>>,
                  <<"hardware_id", proof.hardware_id>>,
                  <<"block_height", block_height>>,
                  <<"timestamp", t>> >>)

\* the dict tx_data of submit_to_nuchain when int(time.time()) is t
tx_data(rig, proof, block_height, t) ==
    << <<"type", "mining/ProcessCrossChainMessage">>,
       <<"value", << <<"creator", "relayer">>,
                     <<"source_chain", "cysic-hardware-mining">>,
                     <<"message_type", "cysic_proof_submission">>,
                     <<"payload", encode_mining_payload(rig, proof, block_height, t)>>,
                     <<"nonce", t>> >> >> >>

\* encode_cosmos_tx(tx_data)
encode_cosmos_tx(tx) == json_dumps(tx)

\* the requests.post calls one call of submit_to_nuchain makes when the target
\* would fail `script` requests before it accepts one
post_attempts(script) == 1

\* submit_to_nuchain(rig, proof, block_height): the target fails `script`
\* requests in the way `kind` before it accepts one; the transaction is built
\* unless the lookup of config['relayer_address'] raises
submit_to_nuchain(rig, proof, h, script, kind) ==
    LET pr == <<rig, h>>
        outcome ==
            CASE ~relayer_address -> "error"       \* KeyError, line 366
              [] script = 0 -> "submitted"         \* status 200, code 0
              [] kind = "code" -> "failed"         \* printed, line 388
              [] kind = "exception" -> "error"     \* printed, line 391
              [] OTHER -> "ignored"                \* status # 200: nothing is done
    IN  /\ handed' = handed \cup {pr}
        /\ total_rewards' =
              IF outcome = "submitted" THEN total_rewards + 1 ELSE total_rewards
        /\ confirmed' =
              IF outcome = "submitted" THEN [confirmed EXCEPT ![pr] = @ + 1]
              ELSE confirmed
        /\ last_sub' = [pair |-> pr,
                        attempts |-> IF relayer_address
                                     THEN post_attempts(script) ELSE 0,
                        script |-> script, outcome |-> outcome,
                        proof |-> proof, built |-> relayer_address,
                        tx |-> IF relayer_address
                               THEN encode_cosmos_tx(
                                        tx_data(mining_rigs[rig], proof, h, now))
                               ELSE << >>]

SubmitCall ==
    /\ submits < MaxSubmits
    /\ submits' = submits + 1
    /\ \E rig \in DOMAIN mining_rigs, proof \in CysicProofs, h \in BlockHeights,
          script \in 0..MaxScript, kind \in SubmitFailures :
         submit_to_nuchain(rig, proof, h, script, kind)
    /\ UNCHANGED << registry_vars, monitor_vars, tim_pc, now, fan, ready, obs,
                    calls, proofs_generated, inputs, relayer_address,
                    dispatched, in_flight, public_inputs, stats, answers >>

NextSubmit ==
    \/ SubmitCall
    \/ Tick

SpecSubmit == InitSubmit /\ [][NextSubmit]_vars


\* ------------------------------------------- dispatcher on a given registry

\* the mock rig stored under key k
RigOfKey(k) ==
    CHOOSE r \in {mock_rigs[i] : i \in 1..Len(mock_rigs)} : rig_key(k[1], r) = k

\* trigger_proof_generation applied to a registry whose rigs carry any active
\* flags (the mock oracle data of the program marks every rig active)
InitDispatch ==
    /\ oracle_contracts = [c \in ChainSet |-> "ok"]
    /\ phase = "running"
    /\ \E f \in [AllKeys -> BOOLEAN] :
          mining_rigs = [k \in AllKeys |-> [RigOfKey(k) EXCEPT !.is_active = f[k]]]
    /\ loaded = [c \in ChainSet |-> mock_rigs]
    /\ mon_pc = "connect"
    /\ fails = 0
    /\ waited = 0
    /\ conn_fresh = TRUE
    /\ last_seen = 0
    /\ last_trigger = [n |-> 0, h |-> 0]
    /\ tim_pc = "loop"
    /\ now = ClockStart
    /\ fan = [p \in Procs |-> NoFan]
    /\ ready = << >>
    /\ obs = [p \in Procs \cup {"stats"} |-> NotRead]
    /\ calls = [pr \in AllKeys \X Heights |-> 0]
    /\ proofs_generated = 0
    /\ inputs = 0
    /\ relayer_address = TRUE
    /\ total_rewards = 0
    /\ handed = {}
    /\ submits = 0
    /\ confirmed = [pr \in AllKeys \X BlockHeights |-> 0]
    /\ last_sub = NoSub
    /\ dispatched = NoDispatch
    /\ in_flight = {}
    /\ public_inputs = NoInputs
    /\ stats = NoStats
    /\ answers = [ok |-> 0, failed |-> 0]

NextDispatch ==
    \/ MonConnect
    \/ MonBlockEvent
    \/ TimerRound
    \/ Tick
    \/ \E p \in Procs : ProverRequest(p)
    \/ \E p \in Procs : ProverCall(p)
    \/ \E p \in Procs : FanoutDone(p)

SpecDispatch == InitDispatch /\ [][NextDispatch]_vars

\* ===================================================================== claims

RECURSIVE Pow2(_)
Pow2(n) == IF n = 0 THEN 1 ELSE 2 * Pow2(n - 1)

\* the rigs of a fan-out that were already called, in call order
CalledRigs(f) == [i \in 1..Len(f.results) |-> f.results[i][1]]

\* C1: the dispatcher issues at most one prover call per (rig identity,
\* height) pair, whatever heights are repeated by the monitor or the timer.
C1_AtMostOneCallPerPair == \A pr \in DOMAIN calls : calls[pr] <= 1

\* C2: the heights of the triggers the monitor emits are strictly increasing:
\* an event at or below the last emitted height emits no trigger.
C2_TriggersStrictlyIncrease ==
    [][last_trigger'.n > last_trigger.n => last_trigger'.h > last_trigger.h]_vars

\* the delays the code knows: asyncio.sleep(5) is the base and the cap
BackoffBase == ReconnectDelay

BackoffCap == ReconnectDelay

OldRigSet == {}

NewRigSet == UNION {ChainKeys(c) : c \in {x \in ChainSet : oracle_contracts[x] = "ok"}}

\* C4: every reader of the registry (dispatcher of the monitor, dispatcher of
\* the timer, stats loop) reads the complete old or the complete new rig set,
\* never the set of a refresh that has updated only some of its sources.
C4_ReadersSeeCompleteSet ==
    \A r \in DOMAIN obs : obs[r].read => obs[r].rigs \in {OldRigSet, NewRigSet}

\* C4 witness: both sources install rigs (the refresh passes through a state
\* with the first source only) and the dispatcher and the stats loop have read
C4_Witness ==
    /\ \A c \in ChainSet : oracle_contracts[c] = "ok"
    /\ obs["monitor"].read /\ obs["monitor"].rigs = NewRigSet
    /\ obs["stats"].read /\ obs["stats"].rigs = NewRigSet
    /\ fan["monitor"].active

\* C5: when the target fails every attempt up to the cap, submission makes
\* exactly AttemptCap attempts and ends abandoned with the error reported.
C5_AbandonedAfterCap ==
    (last_sub.outcome # "none" /\ relayer_address /\ last_sub.script >= AttemptCap)
        => /\ last_sub.attempts = AttemptCap
           /\ last_sub.outcome \in {"failed", "error"}

\* C6: when the target fails k < AttemptCap attempts and then accepts,
\* submission ends confirmed with attempt count k + 1.
C6_ConfirmedAfterRetries ==
    (last_sub.outcome # "none" /\ relayer_address /\ last_sub.script < AttemptCap)
        => /\ last_sub.outcome = "submitted"
           /\ last_sub.attempts = last_sub.script + 1

\* C7: in a fan-out every active rig is called exactly once, in order, whatever
\* the outcomes of the calls before it; the caller stays in its fan-out; and a
\* later fan-out covers the same rigs again, failed or not.
C7_FailureIsolated ==
    \A p \in Procs :
        fan[p].active =>
            /\ CalledRigs(fan[p]) \o fan[p].todo = active_rigs(mining_rigs)
            /\ (p = "monitor" => mon_pc = "fanout")
            /\ (p = "timer" => tim_pc = "fanout")

\* C7 witness: at height 2 a rig has failed and the rig after it has succeeded,
\* and that second rig had failed at height 1 (the only success so far is its)
C7_Witness ==
    /\ fan["monitor"].active
    /\ fan["monitor"].h = 2
    /\ Len(fan["monitor"].results) >= 2
    /\ fan["monitor"].results[1][2] = "None"
    /\ fan["monitor"].results[2][2] = "proof"
    /\ proofs_generated = 1
    /\ calls[<<fan["monitor"].results[2][1], 1>>] = 1

\* C8: every proof a fan-out produced has been handed to submit_to_nuchain
\* when the fan-out ends and its results are dropped.
C8_ProofsHandedToSubmission ==
    [][\A p \in Procs :
          (fan[p].active /\ ~fan'[p].active) =>
              \A i \in 1..Len(fan[p].results) :
                  fan[p].results[i][2] = "proof" =>
                      <<fan[p].results[i][1], fan[p].h>> \in handed']_vars

\* C9: at most one confirmed submission per (rig identity, height).
C9_AtMostOneConfirmed == \A pr \in DOMAIN confirmed : confirmed[pr] <= 1

\* C10: after the refresh, every source that could be queried has its rigs in
\* the registry, whether or not the other source failed, and a source that
\* failed has installed none.
C10_FailedSourceSkipped ==
    phase = "running" =>
        \A c \in ChainSet :
            IF oracle_contracts[c] = "ok"
            THEN ChainKeys(c) \subseteq DOMAIN mining_rigs
            ELSE ChainKeys(c) \cap DOMAIN mining_rigs = {}

\* C10 witness: the first source raises and the second source's rigs are loaded
C10_Witness ==
    /\ phase = "running"
    /\ oracle_contracts[Chains[1]] = "raises"
    /\ oracle_contracts[Chains[2]] = "ok"
    /\ DOMAIN mining_rigs = ChainKeys(Chains[2])


\* rig k is in the registry with its active flag set
IsActive(k) == k \in DOMAIN mining_rigs /\ mining_rigs[k].is_active

\* C11: when the fan-out of a height that was triggered once has run, every
\* active rig has exactly one prover call tagged with that height; a rig whose
\* active flag is false never gets a prover call; and no prover call carries a
\* height that was not triggered.
C11_OneCallPerActiveRig ==
    /\ \A p \in Procs :
          (fan[p].active /\ fan[p].todo = << >>
                         /\ dispatched.count[fan[p].h] = 1) =>
              \A k \in AllKeys :
                  calls[<<k, fan[p].h>>] = IF IsActive(k) THEN 1 ELSE 0
    /\ \A k \in AllKeys, h \in Heights :
          (~IsActive(k) \/ dispatched.count[h] = 0) => calls[<<k, h>>] = 0

\* C11 witness: two active rigs and an inactive one, one trigger at a height,
\* its fan-out has run
C11_Witness ==
    /\ Cardinality({k \in AllKeys : IsActive(k)}) = 2
    /\ \E k \in DOMAIN mining_rigs : ~mining_rigs[k].is_active
    /\ fan["monitor"].active
    /\ fan["monitor"].todo = << >>
    /\ dispatched.count[fan["monitor"].h] = 1
    /\ Len(fan["monitor"].results) = 2

\* C12: over the whole run the heights passed to trigger_proof_generation, by
\* the monitor and by the timer together, never decrease from one call to the
\* next.
C12_HeightsNeverDecrease ==
    [][dispatched'.n > dispatched.n => dispatched'.last >= dispatched.last]_vars

\* the smallest value a concurrency limit can be configured to; the code
\* defines no limit
MinConcurrencyLimit == 1

C14_MonitorNeverReturns == mon_pc # "returned"

\* C15: the serialized transaction is a function of the rig, the proof and the
\* height alone: two consecutive submissions of the same rig, proof and height
\* build the same serialized transaction, payload included.
C15_PayloadDeterministic ==
    [][(submits' > submits /\ last_sub.built /\ last_sub'.built
           /\ last_sub'.pair = last_sub.pair
           /\ last_sub'.proof = last_sub.proof)
          => last_sub'.tx = last_sub.tx]_vars

RegistryKeys(chain) == {k \in DOMAIN mining_rigs : k[1] = chain}

C18_StatsReadOnly ==
    [][stats'.rounds > stats.rounds =>
          /\ UNCHANGED << mining_rigs, proofs_generated, total_rewards >>
          /\ UNCHANGED monitor_vars
          /\ UNCHANGED << fan, ready, in_flight, tim_pc, handed, confirmed >>]_vars

\* C18 witness: the stats loop has run between the last prover call of a
\* fan-out and the return of that fan-out, and has read a counter above zero
C18_Witness ==
    /\ stats.rounds >= 1
    /\ stats.proofs_generated >= 1
    /\ stats.proofs_generated = proofs_generated
    /\ stats.active_rigs = 4
    /\ fan["monitor"].active
    /\ mon_pc = "fanout"

\* C19: proofs_generated is the number of prover calls answered with success
\* so far: a successful answer raises it by one, any other end of a call
\* leaves it as it is, and no step lowers it, whether the call belongs to a
\* fan-out of the monitor or of the timer.
C19_CounterCountsSuccesses ==
    [][/\ proofs_generated' = answers'.ok
       /\ proofs_generated' >= proofs_generated
       /\ (answers'.ok > answers.ok => proofs_generated' = proofs_generated + 1)
       /\ (answers'.failed > answers.failed =>
              proofs_generated' = proofs_generated)]_vars

\* C19 witness: a fan-out of the monitor with a failed and a successful call
\* and, interleaved with it, a fan-out of the timer with a successful call
C19_Witness ==
    /\ Len(fan["monitor"].results) = 2
    /\ fan["monitor"].results[1][2] = "None"
    /\ fan["monitor"].results[2][2] = "proof"
    /\ Len(fan["timer"].results) >= 1
    /\ fan["timer"].results[1][2] = "proof"
    /\ proofs_generated = 2
    /\ answers.failed = 1

\* C20: the monitor reads an event only when the fan-out it started for the
\* previous event is over: none of its tasks is queued or in flight and the
\* gather has returned, so two fan-outs of the monitor are never in progress
\* at the same time.
C20_OneEventAtATime ==
    [][last_trigger'.n > last_trigger.n =>
          /\ ~fan["monitor"].active
          /\ \A i \in 1..Len(ready) : ready[i] # "monitor"
          /\ \A k \in AllKeys : <<"monitor", k>> \notin in_flight]_vars

\* C20 witness: the monitor has read a second event, of another height, after
\* every rig was called for the first one
C20_Witness ==
    /\ last_trigger.n = 2
    /\ last_trigger.h = 2
    /\ mon_pc = "fanout"
    /\ fan["monitor"].h = 2
    /\ DOMAIN mining_rigs # {}
    /\ \A k \in DOMAIN mining_rigs : calls[<<k, 1>>] = 1

====
